---------------------------- MODULE Spec2Model ----------------------------
(***************************************************************************)
(* Granular Tukey-window effect (src/src/lib.rs): the engine state of      *)
(* struct Granular and its three host entry points initialize, reset and   *)
(* process.                                                                *)
(*                                                                         *)
(* Numbers.  Samples are small integers (exact in f32).  The parameters    *)
(* density and mix, which range over [0,1], are fixed-point values over    *)
(* DensityOne and MixOne; an output sample is kept as its numerator over   *)
(* MixOne.  Sample rates are whole numbers of Hz and the length parameters *)
(* take values for which the f32 product (ms / 1000) * sr is exact before  *)
(* the cast to usize.                                                      *)
(***************************************************************************)
EXTENDS Integers, Sequences, FiniteSets, TLC

VARIABLES
    ring,    \* Granular::ring   : Vec<f32>
    wr,      \* Granular::wr     : usize
    grains,  \* Granular::grains : Vec<Grain>
    sr,      \* Granular::sr     : f32 (0 until initialize is called)
    status,  \* outcome of the last host call: "idle", "ok", "normal", "panic"
    last,    \* the last host call: its arguments and what it observed
    hist,    \* input frames written to the ring since the last initialize or reset
    clean,   \* TRUE from a reset of an initialized engine until the next initialize
    calls    \* number of host calls made so far

vars == <<ring, wr, grains, sr, status, last, hist, clean, calls>>

(*------------------------- program constants ----------------------------*)
RING_SEC == 5
MAX_GRAINS == 25
\* TUKEY_ALPHA = 0.2 = TukeyAlphaNum / TukeyAlphaDen
TukeyAlphaNum == 1
TukeyAlphaDen == 5
\* fixed-point 1.0 of the density and mix parameter ranges
DensityOne == 2
MixOne == 2

(*------------------------------ bounds ----------------------------------*)
\* host calls explored from the default engine, per specification
MaxCalls == 5
AudioCalls == 4
ResetCalls == 5
RingCalls == 5
LenCalls == 3
GrainCalls == 5
\* a specification whose state space is finite counts no calls
NoBudget == 0 - 1
\* marks a random draw from an empty range, or a draw that is not made
NoDraw == 0 - 1

(*------------------------------ helpers ---------------------------------*)
RECURSIVE SumSeq(_)
SumSeq(s) == IF s = <<>> THEN 0 ELSE Head(s) + SumSeq(Tail(s))

Zeros(n) == [i \in 1..n |-> 0]

MaxOf(a, b) == IF a >= b THEN a ELSE b

Clamp(x, lo, hi) == IF x < lo THEN lo ELSE IF x > hi THEN hi ELSE x

OrNone(S) == IF S = {} THEN {NoDraw} ELSE S

(*------------------------------- Grain ----------------------------------*)
Grain(b, p, c) == [buf |-> b, pos |-> p, ch |-> c]

\* Grain::done
done(g) == g.pos >= Len(g.buf)

(*---------------------------- Tukey window ------------------------------*)
\* edge = floor(alpha * (n - 1) * 0.5)
TukeyEdge(n) == (TukeyAlphaNum * (n - 1)) \div (2 * TukeyAlphaDen)

\* 0.5 * (1 - cos(2 pi k / (alpha (n - 1)))): 0 at k = 0.  The model keeps
\* n < 21, so edge <= 1 and k = 0 is the only index inside a taper.
Taper(k, n) == IF k = 0 THEN 0 ELSE 1

TukeyWeight(k, n) ==
    IF k < TukeyEdge(n) THEN Taper(k, n)
    ELSE IF k > n - TukeyEdge(n) - 1 THEN Taper(n - k - 1, n)
    ELSE 1

apply_tukey(x) == [i \in 1..Len(x) |-> x[i] * TukeyWeight(i - 1, Len(x))]

(*---------------------------- parameters --------------------------------*)
\* the ring sized from the sample rate of the engine before the call
RingLen_Stale(rate) == RING_SEC * sr

\* (RING_SEC * self.sr) as usize
RingLen(rate) == RING_SEC * rate

\* ((ms / 1_000.0) * self.sr) as usize
LenOfMs(ms, rate) == (ms * rate) \div 1000

MinLenMs(min_ms) == MaxOf(min_ms, 1)
\* the maximum taken as set, not forced up to the minimum
MaxLenMs_Unforced(min_ms, max_ms) == max_ms

MaxLenMs(min_ms, max_ms) == MaxOf(max_ms, MinLenMs(min_ms))
MinLen(min_ms, rate) == LenOfMs(MinLenMs(min_ms), rate)
MaxLen(min_ms, max_ms, rate) == LenOfMs(MaxLenMs(min_ms, max_ms), rate)

(*----------------------------- scheduler --------------------------------*)
\* the trigger with the pool test off by one
Trigger_AtCapacity(gs, density, r) == Len(gs) <= MAX_GRAINS /\ r < density

\* self.grains.len() < MAX_GRAINS && rng.random::<f32>() < density
Trigger(gs, density, r) == Len(gs) < MAX_GRAINS /\ r < density

\* self.ring.len() >= max_len
EnoughHistory(rg, max_len) == Len(rg) >= max_len

LenRange(min_len, max_len) == min_len .. max_len
\* a start anywhere in the ring, left to the modulo of the read
StartRange_WholeRing(c, len) == 0 .. (c - 1)

StartRange(c, len) == 0 .. (c - len - 1)
ChRange(n_ch) == 0 .. (n_ch - 1)

\* (0..len).map(|i| self.ring[(start + i) % self.ring.len()])
ReadWindow(rg, start, len) ==
    [i \in 1..len |-> rg[((start + (i - 1)) % Len(rg)) + 1]]

\* the start offsets explored: the whole range, or its two ends
StartPicks(c, len, allStarts) ==
    IF allStarts THEN StartRange(c, len)
    ELSE StartRange(c, len) \cap {0, c - len - 1}

\* the random draws <<len, start, ch>> a call can make; a draw from an
\* empty range is NoDraw, and so are the draws of a call that does not spawn
SchedulerDraws(rg, gs, rate, n_ch, density, r, min_ms, max_ms, allStarts) ==
    IF Trigger(gs, density, r) /\ EnoughHistory(rg, MaxLen(min_ms, max_ms, rate))
    THEN UNION { { <<l, s, c>> : s \in IF l = NoDraw THEN {NoDraw}
                                       ELSE OrNone(StartPicks(Len(rg), l, allStarts)),
                                 c \in OrNone(ChRange(n_ch)) } :
                 l \in OrNone(LenRange(MinLen(min_ms, rate), MaxLen(min_ms, max_ms, rate))) }
    ELSE { <<NoDraw, NoDraw, NoDraw>> }

\* the grain built from the ring for the draws len, start, ch
NewGrain(rg, len, start, ch) == Grain(apply_tukey(ReadWindow(rg, start, len)), 0, ch)

\* a scheduler that pushes one grain for every channel of the buffer
Scheduler_PerChannel(rg, gs, rate, n_ch, density, r, min_ms, max_ms, len, start, ch) ==
    IF ~(Trigger(gs, density, r) /\ EnoughHistory(rg, MaxLen(min_ms, max_ms, rate)))
    THEN [panic |-> FALSE, grains |-> gs, spawned |-> FALSE]
    ELSE IF len = NoDraw \/ start = NoDraw \/ ch = NoDraw
    THEN [panic |-> TRUE, grains |-> gs, spawned |-> FALSE]
    ELSE [panic |-> FALSE,
          grains |-> gs \o [c \in 1..n_ch |-> NewGrain(rg, len, start, c - 1)],
          spawned |-> TRUE]

\* step 1 of process: [panic, grains, spawned]
Scheduler(rg, gs, rate, n_ch, density, r, min_ms, max_ms, len, start, ch) ==
    IF ~(Trigger(gs, density, r) /\ EnoughHistory(rg, MaxLen(min_ms, max_ms, rate)))
    THEN [panic |-> FALSE, grains |-> gs, spawned |-> FALSE]
    ELSE IF len = NoDraw \/ start = NoDraw \/ ch = NoDraw
    THEN [panic |-> TRUE, grains |-> gs, spawned |-> FALSE]
    ELSE [panic |-> FALSE,
          grains |-> Append(gs, NewGrain(rg, len, start, ch)),
          spawned |-> TRUE]

(*----------------------------- frame loop -------------------------------*)
\* the downmix taking the first channel only
Downmix_FirstChannel(frame) == IF frame = <<>> THEN 0 ELSE frame[1]

\* mono_input += *frame.get_mut(ch) for ch in 0..n_ch
Downmix(frame) == SumSeq(frame)

\* the channel a grain is mixed into
RouteCh(g, n_ch) == g.ch % n_ch

\* g.buf.get(g.pos)
HasSample(g) == g.pos < Len(g.buf)
Sample(g) == g.buf[g.pos + 1]

RECURSIVE MixInto(_, _, _)
MixInto(gs, n_ch, c) ==
    IF gs = <<>> THEN 0
    ELSE (IF HasSample(Head(gs)) /\ RouteCh(Head(gs), n_ch) = c
          THEN Sample(Head(gs)) ELSE 0) + MixInto(Tail(gs), n_ch, c)

\* mixes[ch] for ch in 0..n_ch, as a sequence over channels 1..n_ch
Mixes(gs, n_ch) == [c \in 1..n_ch |-> MixInto(gs, n_ch, c - 1)]

\* out = dry * (1.0 - mix) + mixes[ch] * mix, as a numerator over MixOne
Blend(dry, wet, mix) == dry * (MixOne - mix) + wet * mix

\* a cursor step that also drops the sample just played from the buffer
Advance_Consuming(g) ==
    IF g.pos < Len(g.buf) THEN [g EXCEPT !.buf = Tail(@), !.pos = @ + 1] ELSE g

\* if g.pos < g.buf.len() { g.pos += 1 }
Advance(g) == IF g.pos < Len(g.buf) THEN [g EXCEPT !.pos = @ + 1] ELSE g

AnySample(gs) == \E i \in 1..Len(gs) : HasSample(gs[i])

\* a frame that leaves the engine as it was: no write, no grain advanced
Frame_Idle(st, inp, n_ch, mix, f) == st

\* one iteration of the loop over buffer.iter_samples(), on frame f of inp
Frame(st, inp, n_ch, mix, f) ==
    IF st.wr >= Len(st.ring)
    THEN [st EXCEPT !.panic = TRUE]                     \* self.ring[self.wr]
    ELSE LET rg == [st.ring EXCEPT ![st.wr + 1] = Downmix(inp[f])]
             w  == (st.wr + 1) % Len(st.ring)
         IN IF n_ch = 0 /\ AnySample(st.grains)
            THEN [st EXCEPT !.ring = rg, !.wr = w, !.written = @ + 1,
                            !.panic = TRUE]             \* g.ch % n_ch
            ELSE [st EXCEPT
                    !.ring = rg, !.wr = w, !.written = @ + 1,
                    !.out = [@ EXCEPT ![f] =
                        [c \in 1..n_ch |->
                            Blend(inp[f][c], Mixes(st.grains, n_ch)[c], mix)]],
                    !.grains = [i \in 1..Len(st.grains) |-> Advance(st.grains[i])]]

RECURSIVE FrameLoop(_, _, _, _, _)
FrameLoop(st, inp, n_ch, mix, f) ==
    IF f > Len(inp) \/ st.panic THEN st
    ELSE FrameLoop(Frame(st, inp, n_ch, mix, f), inp, n_ch, mix, f + 1)

\* a pruning test that keeps a grain standing at the end of its buffer
NotDone_AtEnd(g) == g.pos <= Len(g.buf)

\* self.grains.retain(|g| !g.done())
NotDone(g) == ~done(g)
Retain(gs) == SelectSeq(gs, NotDone)

\* the buffer before the call, in output units
Untouched(inp) == [f \in 1..Len(inp) |-> [c \in 1..Len(inp[f]) |-> inp[f][c] * MixOne]]

\* process, whole: the engine after the call and what the call observed
ProcessResult(rg, w, gs, rate, n_ch, inp, density, r, min_ms, max_ms, mix, len, start, ch) ==
    LET sch == Scheduler(rg, gs, rate, n_ch, density, r, min_ms, max_ms,
                         len, start, ch)
        st0 == [ring |-> rg, wr |-> w, grains |-> sch.grains,
                out |-> Untouched(inp), panic |-> sch.panic, written |-> 0]
        st1 == FrameLoop(st0, inp, n_ch, Clamp(mix, 0, MixOne), 1)
    IN [ring |-> st1.ring, wr |-> st1.wr,
        grains |-> IF st1.panic THEN st1.grains ELSE Retain(st1.grains),
        status |-> IF st1.panic THEN "panic" ELSE "normal",
        out |-> st1.out, written |-> st1.written,
        spawned |-> sch.spawned, played |-> sch.grains,
        ended |-> st1.grains]

(*------------------------------- state ----------------------------------*)
\* the record of a call that is not a process call
NoCall == [op |-> "none", prevOp |-> "none", cleared |-> 0,
           n_ch |-> 0, inp |-> <<>>, out |-> <<>>,
           min_len |-> 0, max_len |-> 0, draw |-> <<NoDraw, NoDraw, NoDraw>>,
           density |-> 0, mix |-> 0, sr0 |-> 0, wr0 |-> 0, ring0 |-> <<>>,
           before |-> 0, spawned |-> FALSE, played |-> <<>>, ended |-> <<>>,
           written |-> 0]

\* Granular::default
Init ==
    /\ ring = <<>>
    /\ wr = 0
    /\ grains = <<>>
    /\ sr = 0
    /\ status = "idle"
    /\ last = NoCall
    /\ hist = <<>>
    /\ clean = FALSE
    /\ calls = 0

\* a host call can be made: the process has not aborted
Callable(budget) == status # "panic" /\ (budget = NoBudget \/ calls < budget)

Counted(budget) == IF budget = NoBudget THEN calls ELSE calls + 1

(*------------------------------ actions ---------------------------------*)
\* Granular::initialize with cfg.sample_rate = rate
InitializeAt(rate) ==
    /\ sr' = rate
    /\ ring' = Zeros(RingLen(rate))
    /\ UNCHANGED <<wr, grains>>
    /\ status' = "ok"
    /\ last' = [NoCall EXCEPT !.op = "initialize"]
    /\ hist' = <<>>
    /\ clean' = FALSE

InitializeOver(RateSet, budget) ==
    /\ Callable(budget)
    /\ calls' = Counted(budget)
    /\ \E rate \in RateSet : InitializeAt(rate)

\* a reset that leaves the active grains in place
ResetCall_KeepsGrains ==
    /\ wr' = 0
    /\ UNCHANGED grains
    /\ ring' = Zeros(Len(ring))
    /\ UNCHANGED sr
    /\ status' = "ok"
    /\ last' = [NoCall EXCEPT !.op = "reset", !.before = Len(grains)]
    /\ hist' = <<>>
    /\ clean' = (sr > 0)

\* Granular::reset
ResetCall ==
    /\ wr' = 0
    /\ grains' = <<>>
    /\ ring' = Zeros(Len(ring))
    /\ UNCHANGED sr
    /\ status' = "ok"
    /\ last' = [NoCall EXCEPT !.op = "reset", !.before = Len(grains)]
    /\ hist' = <<>>
    /\ clean' = (sr > 0)

ResetOver(budget) ==
    /\ Callable(budget)
    /\ calls' = Counted(budget)
    /\ ResetCall

\* Granular::process on a buffer of n_ch channels holding inp, with the
\* smoothed parameter values density, min_ms, max_ms, mix and the random
\* draws r (the trigger) and d = <<len, start, ch>>; hist is kept when
\* track is set and the draws are recorded when draws is set
ProcessCall(n_ch, inp, density, r, min_ms, max_ms, mix, d, track, draws) ==
    \E res \in {ProcessResult(ring, wr, grains, sr, n_ch, inp, density, r,
                             min_ms, max_ms, mix, d[1], d[2], d[3])} :
       /\ ring' = res.ring
       /\ wr' = res.wr
       /\ grains' = res.grains
       /\ UNCHANGED sr
       /\ status' = res.status
       /\ last' = [op |-> "process", prevOp |-> last.op,
                   cleared |-> IF last.op = "reset" THEN last.before ELSE 0,
                   n_ch |-> n_ch, inp |-> inp, out |-> res.out,
                   min_len |-> MinLen(min_ms, sr),
                   max_len |-> MaxLen(min_ms, max_ms, sr),
                   draw |-> IF draws THEN d ELSE <<NoDraw, NoDraw, NoDraw>>,
                   density |-> density, mix |-> mix, sr0 |-> sr, wr0 |-> wr,
                   ring0 |-> ring, before |-> Len(grains),
                   spawned |-> res.spawned, played |-> res.played,
                   ended |-> res.ended, written |-> res.written]
       /\ hist' = IF track THEN hist \o SubSeq(inp, 1, res.written) ELSE hist
       /\ UNCHANGED clean

\* process over a domain D: the buffers D.blocks, the densities D.den and
\* trigger draws D.r, the length parameters D.ms (pairs <<min_ms, max_ms>>),
\* the mixes D.mix and the start offsets (all of them when D.allStarts)
ProcessOver(D, budget) ==
    /\ Callable(budget)
    /\ calls' = Counted(budget)
    /\ \E inp \in D.blocks, density \in D.den, r \in D.r, ms \in D.ms,
          mix \in D.mix :
           \E d \in SchedulerDraws(ring, grains, sr, inp.n_ch, density, r,
                                   ms[1], ms[2], D.allStarts) :
               ProcessCall(inp.n_ch, inp.frames, density, r, ms[1], ms[2], mix,
                           d, D.track, D.draws)

\* the buffers of n_ch channels and `frames` frames over the samples S
Blocks(n_ch, frames, S) ==
    { [n_ch |-> n_ch, frames |-> b] : b \in [1..frames -> [1..n_ch -> S]] }

\* the trigger draws r in [0, 1)
TriggerDraws == 0 .. (DensityOne - 1)

(*------------- Spec: the host protocol, misuse included ------------------*)
\* silence at two sample rates, with 0 to 2 channels and blocks of 0 or 5
\* frames, so that a block passes the end of the smaller ring
ProtocolRates == {1, 2}
ProtocolDomain ==
    [blocks |-> UNION { Blocks(n, f, {0}) : n \in {0, 1, 2}, f \in {0, 5} },
     den |-> {0, DensityOne}, r |-> {0}, ms |-> {<<1000, 1000>>},
     mix |-> {MixOne}, allStarts |-> FALSE, track |-> FALSE, draws |-> FALSE]

Initialize == InitializeOver(ProtocolRates, MaxCalls)
Reset == ResetOver(MaxCalls)
Process == ProcessOver(ProtocolDomain, MaxCalls)

Next == Initialize \/ Reset \/ Process

Spec == Init /\ [][Next]_vars

(*------------- SpecPool: filling the grain pool ---------------------------*)
\* one channel of silence at 1 Hz; every density and trigger draw
PoolDomain ==
    [blocks |-> UNION { Blocks(1, f, {0}) : f \in {0, 1} },
     den |-> 0 .. DensityOne, r |-> TriggerDraws, ms |-> {<<1000, 1000>>},
     mix |-> {MixOne}, allStarts |-> TRUE, track |-> FALSE, draws |-> FALSE]

InitializePool == InitializeOver({1}, NoBudget)
ResetPool == ResetOver(NoBudget)
ProcessPool == ProcessOver(PoolDomain, NoBudget)

NextPool == InitializePool \/ ResetPool \/ ProcessPool

SpecPool == Init /\ [][NextPool]_vars

(*------------- SpecMix: the dry/wet mix and grain routing ---------------*)
\* 1 Hz; a stereo block without frames, a stereo block of two frames and a
\* mono block of one frame, all with input; dry only or wet only; grains of
\* 0 or 1 samples
MixDomain ==
    [blocks |-> { [n_ch |-> 2, frames |-> <<>>],
                  [n_ch |-> 2, frames |-> << <<1, 0>>, <<0, 1>> >>],
                  [n_ch |-> 1, frames |-> << <<1>> >>] },
     den |-> {0, DensityOne}, r |-> {0}, ms |-> {<<500, 1000>>},
     mix |-> {0, MixOne}, allStarts |-> FALSE, track |-> FALSE, draws |-> FALSE]

InitializeMix == InitializeOver({1}, AudioCalls)
ProcessMix == ProcessOver(MixDomain, AudioCalls)

NextMix == InitializeMix \/ ProcessMix

SpecMix == Init /\ [][NextMix]_vars

(*------------- SpecReset: transport restarts ------------------------------*)
\* 1 Hz, one channel, wet only: a block without frames and blocks of one
\* frame with and without input
ResetDomain ==
    [blocks |-> Blocks(1, 0, {0}) \cup Blocks(1, 1, {0, 1}),
     den |-> {0, DensityOne}, r |-> {0}, ms |-> {<<1000, 1000>>},
     mix |-> {MixOne}, allStarts |-> FALSE, track |-> FALSE, draws |-> FALSE]

InitializeReset == InitializeOver({1}, ResetCalls)
ResetReset == ResetOver(ResetCalls)
ProcessReset == ProcessOver(ResetDomain, ResetCalls)

NextReset == InitializeReset \/ ResetReset \/ ProcessReset

SpecReset == Init /\ [][NextReset]_vars

(*------------- SpecRing: the history ring ---------------------------------*)
\* 1 Hz, two channels: a block without frames, a block of 3 frames with input
\* and a silent block of 5 frames, the length of the ring
RingPattern == << <<1, 1>>, <<1, 0>>, <<0, 1>> >>
RingDomain ==
    [blocks |-> { [n_ch |-> 2, frames |-> <<>>],
                  [n_ch |-> 2, frames |-> RingPattern] }
                \cup Blocks(2, 5, {0}),
     den |-> {0, DensityOne}, r |-> {0}, ms |-> {<<1000, 1000>>},
     mix |-> {MixOne}, allStarts |-> TRUE, track |-> TRUE, draws |-> FALSE]

InitializeRing == InitializeOver({1}, RingCalls)
ResetRing == ResetOver(RingCalls)
ProcessRing == ProcessOver(RingDomain, RingCalls)

NextRing == InitializeRing \/ ResetRing \/ ProcessRing

SpecRing == Init /\ [][NextRing]_vars

(*------------- SpecLen: grain lengths at an audio rate --------------------*)
\* 8000 Hz, one channel of silence, blocks of 0 and 1 frames; length
\* parameters of 1 and 2 ms in every combination, min above max included
AudioRate == 8000
LenDomain ==
    [blocks |-> Blocks(1, 0, {0}) \cup Blocks(1, 1, {0}),
     den |-> {0, DensityOne}, r |-> {0},
     ms |-> {<<1, 1>>, <<1, 2>>, <<2, 1>>, <<2, 2>>},
     mix |-> {MixOne}, allStarts |-> FALSE, track |-> FALSE, draws |-> FALSE]

InitializeLen == InitializeOver({AudioRate}, LenCalls)
ProcessLen == ProcessOver(LenDomain, LenCalls)

NextLen == InitializeLen \/ ProcessLen

SpecLen == Init /\ [][NextLen]_vars

(*------------- SpecGrain: the life of a grain -----------------------------*)
\* 2 Hz, one channel, wet only, grains of 2 samples cut at every start
\* offset: a block without frames, a block of one frame and a block of
\* 5 frames, half the ring
GrainDomain ==
    [blocks |-> { [n_ch |-> 1, frames |-> <<>>],
                  [n_ch |-> 1, frames |-> << <<2>> >>],
                  [n_ch |-> 1, frames |-> << <<1>>, <<1>>, <<1>>, <<1>>, <<1>> >>] },
     den |-> {0, DensityOne}, r |-> {0}, ms |-> {<<1000, 1000>>},
     mix |-> {MixOne}, allStarts |-> TRUE, track |-> FALSE, draws |-> TRUE]

InitializeGrain == InitializeOver({2}, GrainCalls)
ResetGrain == ResetOver(GrainCalls)
ProcessGrain == ProcessOver(GrainDomain, GrainCalls)

NextGrain == InitializeGrain \/ ResetGrain \/ ProcessGrain

SpecGrain == Init /\ [][NextGrain]_vars

(*------------- SpecLive: a host that keeps processing frames --------------*)
\* 1 Hz, one channel of silence, density 1: blocks of 0 frames, which fill
\* the pool, and of 1 frame
LiveDomain ==
    [blocks |-> Blocks(1, 0, {0}) \cup Blocks(1, 1, {0}),
     den |-> {DensityOne}, r |-> {0}, ms |-> {<<1000, 1000>>},
     mix |-> {MixOne}, allStarts |-> FALSE, track |-> FALSE, draws |-> FALSE]
LiveFrames == [LiveDomain EXCEPT !.blocks = Blocks(1, 1, {0})]

InitializeLive == InitializeOver({1}, NoBudget)
ProcessLive == ProcessOver(LiveDomain, NoBudget)
\* a process call on a block with a frame
ProcessFrames == ProcessOver(LiveFrames, NoBudget)

NextLive == InitializeLive \/ ProcessLive

\* the host keeps delivering blocks with a frame for as long as the engine runs
SpecLive == Init /\ [][NextLive]_vars /\ WF_vars(ProcessFrames)

(*------------------------------ claims ----------------------------------*)
AllZero(q) == \A i \in 1..Len(q) : q[i] = 0

IsProcess == last.op = "process"

\* C1: the active set never holds more than MAX_GRAINS grains, neither
\* between calls nor inside a process call after its scheduler step, and a
\* process call that starts with MAX_GRAINS active grains adds none.
C1_PoolBounded ==
    /\ Len(grains) <= MAX_GRAINS
    /\ IsProcess =>
        /\ Len(last.played) <= MAX_GRAINS
        /\ last.before = MAX_GRAINS =>
              (~last.spawned /\ Len(last.played) = MAX_GRAINS)

\* a process call made with a full pool, density 1 and a frame to play
C1_Witness ==
    /\ IsProcess
    /\ last.before = MAX_GRAINS
    /\ last.density = DensityOne
    /\ last.written = 1
    /\ status = "normal"

\* C2: after any initialize call the write cursor is 0, the active set is
\* empty and every ring slot is zero.
C2_InitializeResetsAll ==
    last.op = "initialize" => (wr = 0 /\ grains = <<>> /\ AllZero(ring))

\* C4: initialize leaves a ring of RING_SEC * sample_rate slots, and no other
\* call changes the ring's length.
C4_RingCapacity ==
    [][ /\ last'.op = "initialize" => Len(ring') = RING_SEC * sr'
        /\ last'.op # "initialize" => Len(ring') = Len(ring) ]_vars

\* the engine re-initialized from 2 Hz to 1 Hz after a block of 5 frames
C4_Witness ==
    /\ last.op = "initialize"
    /\ sr = 1
    /\ Len(ring) = 5
    /\ wr = 5

\* C6: a process call on an engine that was never initialized, or on a
\* buffer without channels, returns a failure status.
C6_MisuseSignalled ==
    (IsProcess /\ (last.sr0 = 0 \/ last.n_ch = 0)) => status = "failure"

\* C7: on an initialized engine a process call with at least one channel
\* returns the normal status, keeps the buffer's channel and frame counts and
\* routes every grain to a channel below n_ch.
C7_ProcessCompletes ==
    (IsProcess /\ last.sr0 > 0 /\ last.n_ch >= 1) =>
        /\ status = "normal"
        /\ Len(last.out) = Len(last.inp)
        /\ \A f \in 1..Len(last.out) : Len(last.out[f]) = last.n_ch
        /\ \A i \in 1..Len(last.played) :
              RouteCh(last.played[i], last.n_ch) \in 0 .. (last.n_ch - 1)

\* C10 as stated: density 0 never spawns, and density 1 spawns exactly one
\* grain in every process call on an initialized engine whose pool is not full.
C10_DensityAsStated ==
    IsProcess =>
        /\ last.density = 0 => ~last.spawned
        /\ (last.density = DensityOne /\ last.sr0 > 0 /\ last.before < MAX_GRAINS)
              => (last.spawned /\ Len(last.played) = last.before + 1)

\* every sample of a block is zero
Silent(block) ==
    \A f \in 1..Len(block) : \A c \in 1..Len(block[f]) : block[f][c] = 0

\* C3: a reset leaves the write cursor at 0, the active set empty and every
\* ring slot zero, and a process call on all-zero input made directly after
\* a reset leaves every output sample zero.
C3_ResetSilences ==
    /\ last.op = "reset" => (wr = 0 /\ grains = <<>> /\ AllZero(ring))
    /\ (IsProcess /\ last.prevOp = "reset" /\ Silent(last.inp))
          => Silent(last.out)

\* a silent frame processed wet, with a spawn, right after a reset that
\* cleared active grains
C3_Witness ==
    /\ IsProcess
    /\ last.prevOp = "reset"
    /\ last.cleared > 0
    /\ Silent(last.inp)
    /\ last.written = 1
    /\ last.spawned
    /\ status = "normal"

\* the last n frames of h exist and are all zero
ZeroRun(h, n) ==
    /\ Len(h) >= n
    /\ \A k \in (Len(h) - n + 1) .. Len(h) : AllZero(h[k])

\* the frames processed since the reset, before the last call
HistBefore == SubSeq(hist, 1, Len(hist) - last.written)

\* C5: after initialize and reset, with W frames processed since, the write
\* cursor is W mod C, the slot at (wr - k) mod C holds the sum of the channel
\* inputs of the k-th most recent frame for 1 <= k <= min(W, C), every other
\* slot is zero; after C all-zero frames in a row every ring slot is zero and
\* a grain spawned then has an all-zero buffer.
C5_RingHoldsHistory ==
    clean =>
        LET W == Len(hist)
            C == Len(ring)
        IN /\ wr = W % C
           /\ \A k \in 1..C :
                 ring[((wr - k) % C) + 1] =
                     IF k <= W THEN SumSeq(hist[W - k + 1]) ELSE 0
           /\ ZeroRun(hist, C) => AllZero(ring)
           /\ (IsProcess /\ last.spawned /\ ZeroRun(HistBefore, C))
                 => AllZero(last.played[Len(last.played)].buf)

\* a grain spawned after input was written and then overwritten by C or more
\* all-zero frames
C5_Witness ==
    /\ clean
    /\ IsProcess
    /\ last.spawned
    /\ Len(last.played[Len(last.played)].buf) > 0
    /\ ZeroRun(HistBefore, Len(ring))
    /\ \E k \in 1..Len(HistBefore) : ~AllZero(HistBefore[k])

\* the sample of grain g in frame f of a call (frames from 1), 0 when the
\* grain is empty or exhausted by then
SampleAt(g, f) == IF g.pos + f - 1 < Len(g.buf) THEN g.buf[g.pos + f] ELSE 0

\* the sum over the grains gs assigned to channel c of their samples in frame f
AssignedSum(gs, f, c) ==
    SumSeq([i \in 1..Len(gs) |-> IF gs[i].ch = c THEN SampleAt(gs[i], f) ELSE 0])

\* C8: with mix = 1 every output sample of channel c is the sum of the
\* current samples of the active, unexhausted grains assigned to channel c;
\* the dry input contributes nothing.
C8_WetAssignedChannel ==
    (IsProcess /\ last.mix = MixOne) =>
        \A f \in 1..Len(last.inp) : \A c \in 1..last.n_ch :
            last.out[f][c] = MixOne * AssignedSum(last.played, f, c - 1)

\* C9: with mix = 0 every output sample equals its input, every frame's
\* downmix is written to the ring (blocks no longer than the ring), the write
\* cursor advances by the frame count and every grain cursor advances by one
\* per frame up to the end of its buffer.
C9_DryOnly ==
    (IsProcess /\ last.mix = 0) =>
        LET n == Len(last.inp)
        IN /\ \A f \in 1..n : \A c \in 1..last.n_ch :
                 last.out[f][c] = MixOne * last.inp[f][c]
           /\ n > 0 =>
                 /\ Len(ring) >= n
                 /\ wr = (last.wr0 + n) % Len(ring)
                 /\ \A f \in 1..n :
                       ring[((last.wr0 + f - 1) % Len(ring)) + 1]
                           = SumSeq(last.inp[f])
                 /\ Len(last.ended) = Len(last.played)
                 /\ \A i \in 1..Len(last.played) :
                       last.ended[i].pos =
                           IF last.played[i].pos + n < Len(last.played[i].buf)
                           THEN last.played[i].pos + n
                           ELSE MaxOf(last.played[i].pos,
                                      Len(last.played[i].buf))

\* C11: once the engine is initialized the write cursor stays inside the
\* ring, 0 <= wr < C, also after a re-initialization to a smaller sample rate.
C11_CursorInRing ==
    sr > 0 => (0 <= wr /\ wr < Len(ring))

\* C12: a process call made while fewer than max_len input samples have been
\* written to the ring since the last initialize or reset spawns no grain.
C12_SpawnNeedsHistory ==
    (IsProcess /\ Len(HistBefore) < last.max_len) => ~last.spawned

\* the grain a spawning call pushed
Spawned == last.played[Len(last.played)]

\* C13: on an initialized engine max_len >= min_len >= 1 for every pair of
\* length parameters, min_ms above max_ms included, and every spawned grain
\* has a length L with min_len <= L <= max_len.
C13_LengthInRange ==
    (IsProcess /\ last.sr0 > 0) =>
        /\ last.min_len >= 1
        /\ last.max_len >= last.min_len
        /\ last.spawned =>
              /\ last.min_len <= Len(Spawned.buf)
              /\ Len(Spawned.buf) <= last.max_len

\* a grain spawned with min_ms = 2 above max_ms = 1: both lengths are 16
C13_Witness ==
    /\ IsProcess
    /\ last.spawned
    /\ last.min_len = 16
    /\ last.max_len = 16
    /\ Len(Spawned.buf) = 16
    /\ \E i \in 1..Len(grains) : Len(grains[i].buf) = 8

\* C14: a spawned grain has a length L below the ring capacity C, the start
\* range 0 .. C - L - 1 is not empty and holds the start drawn, and the L
\* source slots start .. start + L - 1 lie inside the ring.
C14_WindowInsideRing ==
    (IsProcess /\ last.spawned) =>
        LET L == Len(Spawned.buf)
            C == Len(last.ring0)
            start == last.draw[2]
        IN /\ L = last.draw[1]
           /\ L < C
           /\ StartRange(C, L) # {}
           /\ start \in StartRange(C, L)
           /\ start + L <= C
           /\ \A i \in 1..L : Spawned.buf[i] = last.ring0[start + i]

\* a grain of 2 samples cut from the last start offset of a ring holding input
C14_Witness ==
    /\ IsProcess
    /\ last.spawned
    /\ Len(Spawned.buf) = 2
    /\ last.draw[2] = Len(last.ring0) - 3
    /\ Spawned.buf = <<1, 1>>

\* C15: a process call adds at most one grain to the active set, whatever
\* its block length; a call without frames can add one.
C15_OneSpawnPerCall ==
    IsProcess =>
        /\ Len(last.played) <= last.before + 1
        /\ Len(last.ended) = Len(last.played)
        /\ Len(grains) <= last.before + 1
        /\ last.spawned <=> Len(last.played) = last.before + 1

\* a call without frames that added a second grain to the active set
C15_Witness ==
    /\ IsProcess
    /\ Len(last.inp) = 0
    /\ last.spawned
    /\ last.before = 1
    /\ Len(grains) = 2
    /\ status = "normal"

MinOf(a, b) == IF a <= b THEN a ELSE b

\* C16: a grain is created with pos = 0, every active grain has
\* 0 <= pos <= L, and a process call of F frames moves every grain of its
\* frame loop from pos = p to min(p + F, L).
C16_CursorAdvance ==
    /\ \A i \in 1..Len(grains) :
          0 <= grains[i].pos /\ grains[i].pos <= Len(grains[i].buf)
    /\ IsProcess =>
          /\ last.spawned => Spawned.pos = 0
          /\ Len(last.ended) = Len(last.played)
          /\ \A i \in 1..Len(last.played) :
                last.ended[i].pos =
                    MinOf(last.played[i].pos + Len(last.inp),
                          Len(last.played[i].buf))

\* a grain has a sample left to play
StillPlaying(g) == g.pos < Len(g.buf)

\* C17: when a process call returns, the active set holds exactly the grains
\* of its frame loop that have pos < len(buf), in their order.
C17_PruneExactlyDone ==
    (IsProcess /\ status = "normal") =>
        /\ \A i \in 1..Len(grains) : grains[i].pos < Len(grains[i].buf)
        /\ grains = SelectSeq(last.ended, StillPlaying)

\* a call that returned with one grain at the end of its buffer, pruned, and
\* one grain halfway, kept
C17_Witness ==
    /\ IsProcess
    /\ status = "normal"
    /\ Len(last.ended) = 2
    /\ last.ended[1].pos = 2
    /\ last.ended[2].pos = 1
    /\ Len(grains) = 1
    /\ grains[1] = last.ended[2]

\* C19: a process call leaves the buffer and the channel of every grain as
\* they are: the grains it starts with enter its frame loop unchanged, the
\* frame loop changes pos only, and every grain it leaves in the active set
\* is a grain of its frame loop.
C19_GrainImmutable ==
    [][ last'.op = "process" =>
          /\ Len(last'.played) >= Len(grains)
          /\ \A i \in 1..Len(grains) : last'.played[i] = grains[i]
          /\ Len(last'.ended) = Len(last'.played)
          /\ \A i \in 1..Len(last'.played) :
                /\ last'.ended[i].buf = last'.played[i].buf
                /\ last'.ended[i].ch = last'.played[i].ch
          /\ \A j \in 1..Len(grains') :
                \E i \in 1..Len(last'.ended) : grains'[j] = last'.ended[i] ]_vars

\* a grain still active after a call whose first frame overwrote the first
\* ring slot the grain was copied from
C19_Witness ==
    /\ IsProcess
    /\ status = "normal"
    /\ last.spawned
    /\ last.draw[2] = last.wr0
    /\ Spawned.buf = <<1, 1>>
    /\ ReadWindow(ring, last.draw[2], 2) = <<2, 1>>
    /\ grains # <<>>
    /\ grains[Len(grains)].buf = <<1, 1>>
    /\ grains[Len(grains)].pos = 1

\* the wet sum of channel c in frame f of a call on n channels: the samples
\* of the grains gs, as they stood before the first frame, routed to c
WetAt(gs, f, c, n) ==
    SumSeq([i \in 1..Len(gs) |->
               IF gs[i].ch % n = c THEN SampleAt(gs[i], f) ELSE 0])

\* C20: a process call runs scheduler, frame loop, pruning in this order: a
\* grain it spawns is a window of the ring as it stood before the call, the
\* grain plays from its sample 0 in the call's first frame (so its cursor
\* ends at min(F, L)), and every frame mixes all grains of the call, none
\* being pruned before the last frame.
C20_StepOrder ==
    (IsProcess /\ last.spawned) =>
        LET L == Len(Spawned.buf)
            F == Len(last.inp)
        IN /\ \E st \in StartRange(Len(last.ring0), L) :
                 Spawned.buf = apply_tukey(ReadWindow(last.ring0, st, L))
           /\ Len(last.ended) = Len(last.played)
           /\ last.ended[Len(last.ended)].pos = MinOf(F, L)
           /\ \A f \in 1..F : \A c \in 1..last.n_ch :
                 last.out[f][c] =
                     last.inp[f][c] * (MixOne - last.mix)
                       + WetAt(last.played, f, c - 1, last.n_ch) * last.mix

\* C18: while blocks with a frame keep being processed a full pool does not
\* stay full: its grains reach the end of their buffers and are pruned, so a
\* spawn becomes possible again.
C18_PoolDrains ==
    (Len(grains) = MAX_GRAINS) ~> (Len(grains) < MAX_GRAINS)

\* a call with a frame that started with a full pool and pruned the grains
\* that reached their end
C18_Witness ==
    /\ IsProcess
    /\ status = "normal"
    /\ last.before = MAX_GRAINS
    /\ Len(last.inp) = 1
    /\ Len(last.ended) = MAX_GRAINS
    /\ Len(grains) < MAX_GRAINS

=============================================================================
